---- MODULE Spec2Model ----
(***************************************************************************)
(* A model of python_scripts/1.hapsim_and_realize_dichotomous.py:          *)
(*   - the haplotype loader and its MAF filter            (SpecLoader)     *)
(*   - hapsim_one_gene: realisation, LD panels, the oversampling loop and  *)
(*     the split into replicates, over identified pool rows (SpecGene)     *)
(*   - the chi-squared / odds-ratio test over dosages      (SpecTest)      *)
(*   - Pool(nt).map over the gene list and snp_counts.tsv  (SpecPool)      *)
(* Rows of the sample pool are identified by the order in which            *)
(* sample_once drew them; random draws are nondeterministic choices.       *)
(***************************************************************************)
EXTENDS Integers, Sequences, FiniteSets, TLC

VARIABLES
    pc,            \* position of the modelled control flow
    \* ---- module level (loader) ----
    vcf,           \* the reference panel table, one record per SNP row
    maf_min,       \* args.maf_min as a fraction <<num, den>>
    ref_haplo,     \* haplotype matrix [haplotype][snp], entries 0/1
    allele_frq,    \* per-SNP allele frequency as <<sum, n_haplo>>
    plink_bim,     \* annotation table, one record per SNP
    region,        \* region table: gene -> [CHR, START, END]
    \* ---- hapsim_one_gene ----
    gene,          \* the gene this call processes
    m,             \* number of SNPs of the gene
    ret,           \* return value of hapsim_one_gene ("none" until it returns)
    files,         \* paths created below out_dir
    n_drawn,       \* number of rows sample_once has produced so far
    X_pop0,        \* initial pool (row ids); after line 167 the LD pool
    X_idx_used,    \* initial-pool indices selected as case or control
    X_case_dict,   \* combination -> list of case batches; after line 215 -> replicates
    X_ctrl_dict,   \* combination -> list of control batches; after line 216 -> replicates
    realized_beta, \* combination -> causal SNP set of the realised effect vector
    n_collected,   \* combination -> number of collected cases
    thresholds,    \* per prevalence: the liability threshold
    X_ld_lst,      \* per LD size: n_rep panels of n_ld rows (deleted at line 193)
    bed,           \* <<replicate, LD size index>> -> rows written to that .bed file
    X,             \* the batch of the current oversampling round
    k,             \* index of the combination the current loop is at
    rounds,        \* oversampling rounds started
    \* ---- chi-squared test ----
    Xc,            \* case dosages   [replicate][row][snp]
    Xt,            \* control dosages [replicate][row][snp]
    tab,           \* the 2x2 tables a, b, c, d  [replicate][snp]
    z,             \* reported statistics: (replicate, snp) -> [neg, sq]
    ti, tj,        \* loop indices of lines 260-261
    \* ---- worker pool ----
    task,          \* gene index -> "queued" | "running" | "returned" | "raised"
    worker,        \* worker -> gene index it runs, 0 when idle
    result,        \* gene index -> value returned by its worker
    order,         \* gene indices in the order their workers finished
    snp_counts,    \* what Pool.map returned ("none" before)
    table,         \* rows of snp_counts.tsv ("none" before it is written)
    n_writes       \* number of times snp_counts.tsv was written

loaderVars == <<vcf, maf_min, ref_haplo, allele_frq>>
geneVars == <<gene, m, ret, files, n_drawn, X_pop0, X_idx_used, X_case_dict, X_ctrl_dict,
              realized_beta, n_collected, thresholds, X_ld_lst, bed, X, k, rounds>>
testVars == <<Xc, Xt, tab, z, ti, tj>>
poolVars == <<task, worker, result, order, snp_counts, table, n_writes>>
vars == <<pc, loaderVars, plink_bim, region, geneVars, testVars, poolVars>>
\* what the steps of each part leave alone
notLoader == <<region, geneVars, testVars, poolVars>>
notGene == <<loaderVars, plink_bim, region, testVars, poolVars>>
notTest == <<loaderVars, plink_bim, region, geneVars, poolVars>>
notPool == <<loaderVars, geneVars, testVars>>

(***************************************************************************)
(* Helpers                                                                 *)
(***************************************************************************)
RECURSIVE SumSeq(_)
SumSeq(s) == IF s = <<>> THEN 0 ELSE Head(s) + SumSeq(Tail(s))

RECURSIVE Concat(_)
\* np.concatenate of a list of arrays along axis 0
Concat(l) == IF l = <<>> THEN <<>> ELSE Head(l) \o Concat(Tail(l))

\* a[:n]
Take(s, n) == SubSeq(s, 1, IF n < Len(s) THEN n ELSE Len(s))

RECURSIVE BoolIndex(_, _)
\* a[mask] for a boolean mask of the same length
BoolIndex(s, mask) ==
    IF s = <<>> THEN <<>>
    ELSE (IF Head(mask) THEN <<Head(s)>> ELSE <<>>) \o BoolIndex(Tail(s), Tail(mask))

\* np.where(mask)[0], 1-based
Where(mask) == BoolIndex([i \in 1..Len(mask) |-> i], mask)

Range(s) == {s[i] : i \in 1..Len(s)}

\* a.reshape(r, n, m) of an array of row ids; defined only when it has r * n rows
Reshape(s, r, n) == [i \in 1..r |-> SubSeq(s, (i - 1) * n + 1, i * n)]

(***************************************************************************)
(* Fractions <<num, den>>, den > 0                                         *)
(***************************************************************************)
FLess(x, y) == x[1] * y[2] < y[1] * x[2]
FOneMinus(x) == <<x[2] - x[1], x[2]>>

(***************************************************************************)
(* Haplotype loader, lines 284-300                                         *)
(***************************************************************************)
NVcfSnps == 3
Samples == <<"s1", "s2">>
MafMinVals == {<<0, 1>>, <<1, 4>>, <<1, 2>>}
GenotypeStrings == {<<0, 0>>, <<0, 1>>, <<1, 0>>, <<1, 1>>}   \* "0|0" "0|1" "1|0" "1|1"

\* one row of the VCF: row i is the i-th SNP of chromosome 1
VcfRows ==
    {[CHR |-> 1, BP |-> 0, SNP |-> 0, REF |-> "A", ALT |-> "G", QUAL |-> ".", gt |-> g] :
        g \in [1..Len(Samples) -> GenotypeStrings]}

\* lines 289-290: first alleles of all samples, then second alleles, transposed
HaploMatrix(v) ==
    [h \in 1..(2 * Len(Samples)) |->
        [s \in 1..Len(v) |->
            IF h <= Len(Samples) THEN v[s].gt[h][1] ELSE v[s].gt[h - Len(Samples)][2]]]

\* line 293: ref_haplo.mean(axis=0)
ColumnMean(hap, s) == <<SumSeq([h \in 1..Len(hap) |-> hap[h][s]]), Len(hap)>>

\* faulty variant: the band with its edges included
InBandLoose(f, mm) == ~FLess(f, mm) /\ ~FLess(FOneMinus(mm), f)
\* line 294: (allele_frq > maf_min) & (allele_frq < 1 - maf_min)
InBand(f, mm) == FLess(mm, f) /\ FLess(f, FOneMinus(mm))

\* line 297-299: the BIM columns of one VCF row
BimRow(r) == [CHR |-> r.CHR, SNP |-> r.SNP, CM |-> 0, BP |-> r.BP, A1 |-> r.ALT, A2 |-> r.REF]

\* lines 284-293
ReadVcf ==
    /\ pc = "read"
    /\ UNCHANGED notLoader
    /\ ref_haplo' = HaploMatrix(vcf)
    /\ allele_frq' = [s \in 1..Len(vcf) |-> ColumnMean(HaploMatrix(vcf), s)]
    /\ pc' = "filter"
    /\ UNCHANGED <<vcf, maf_min, plink_bim>>

\* lines 294-300
FilterMaf ==
    /\ pc = "filter"
    /\ UNCHANGED notLoader
    /\ LET extract == [s \in 1..Len(allele_frq) |-> InBand(allele_frq[s], maf_min)]
       IN /\ ref_haplo' = [h \in 1..Len(ref_haplo) |-> BoolIndex(ref_haplo[h], extract)]
          /\ allele_frq' = BoolIndex(allele_frq, extract)
          /\ plink_bim' = [i \in 1..Len(BoolIndex(vcf, extract)) |->
                                BimRow(BoolIndex(vcf, extract)[i])]
    /\ pc' = "loaded"
    /\ UNCHANGED <<vcf, maf_min>>

(***************************************************************************)
(* Run parameters, lines 48-65                                             *)
(***************************************************************************)
n_gwa == 2
n_case == n_gwa \div 2
n_ld_str == <<"2", "1">>
n_ld_int == <<2, 1>>
n_rep == 2
n_ld_total == SumSeq(n_ld_int) * n_rep
tot_n_case == n_case * n_rep
pqtl_lst == <<"0.5", "1">>
prevalence_lst == <<"0.1">>
n_pop_beta == 8
subsample_size == 1
gene_list == <<"g1", "g2", "g3">>

\* float(pqtl) as a fraction
PqtlVal(p) == IF p = "0.5" THEN <<1, 2>> ELSE <<1, 1>>
\* norm.isf(float(prvl)), in thousandths
Isf(p) == IF p = "0.1" THEN 1282 ELSE 0

\* itertools.product(prevalence_lst, pqtl_lst), in iteration order
Combos ==
    [i \in 1..(Len(prevalence_lst) * Len(pqtl_lst)) |->
        <<prevalence_lst[((i - 1) \div Len(pqtl_lst)) + 1],
          pqtl_lst[((i - 1) % Len(pqtl_lst)) + 1]>>]
ComboSet == Range(Combos)
PrvlIdx(c) == CHOOSE i \in 1..Len(prevalence_lst) : prevalence_lst[i] = c[1]

(***************************************************************************)
(* hapsim_one_gene, lines 68-279                                           *)
(***************************************************************************)
\* the oversampling loop is cut after MaxRounds rounds
MaxRounds == 2
\* line 196 (10 in the source; scaled down to keep the batches small)
num_subsamples_per_round == 2
PanelSnps == 2
ChrVals == {1, 2}

\* lines 73-75: indices of the panel SNPs inside the gene's region
SnpIdx(bim, reg) ==
    Where([s \in 1..Len(bim) |->
        bim[s].CHR = reg.CHR /\ bim[s].BP >= reg.START /\ bim[s].BP <= reg.END])

\* faulty variant: the early return is never taken
IsEmptyNever(mm) == FALSE
\* line 82
IsEmpty(mm) == mm = 0

\* lines 118-121, called n times: n * subsample_size fresh rows
SampleRows(first, n) == [i \in 1..(n * subsample_size) |-> first + i]

\* line 141: int(np.ceil(m * float(pqtl)))
MQtl(mm, p) == (mm * PqtlVal(p)[1] + PqtlVal(p)[2] - 1) \div PqtlVal(p)[2]

\* the values y_norm can take around a threshold: the noise is unbounded
Liabilities(th) == {th, th + 1}
\* lines 153, 205: y = y_norm > th
Affected(y_norm, th) == [i \in 1..Len(y_norm) |-> y_norm[i] > th]
Not(y) == [i \in 1..Len(y) |-> ~y[i]]
\* lines 154, 206
CaseIdx(y) == Where(y)
\* faulty variants: controls taken among the cases; controls not capped
CtrlIdxNoNeg(y, n) == Take(Where(y), n)
CtrlIdxNoCap(y, n) == Where(Not(y))
\* lines 159, 209: np.where(~y)[0][:i_case.shape[0]]
CtrlIdx(y, n) == Take(Where(Not(y)), n)
\* X[idx]
Rows(x, idx) == [i \in 1..Len(idx) |-> x[idx[i]]]

\* faulty variant: the used rows stay in the LD pool
KeepAll(x, used) == x
\* line 167: np.delete(X_pop0, X_idx_used, axis=0)
Delete(x, used) == BoolIndex(x, [i \in 1..Len(x) |-> i \notin used])

\* a[start:end] with python's clipping, start and end 0-based
Slice(s, start, end) ==
    IF start >= Len(s) THEN <<>> ELSE SubSeq(s, start + 1, IF end < Len(s) THEN end ELSE Len(s))

\* lines 175-181: the offset of the a-th LD size in the LD pool
RECURSIVE LdStart(_)
LdStart(a) == IF a = 1 THEN 0 ELSE LdStart(a - 1) + n_rep * n_ld_int[a - 1]

\* faulty variant: every combination collects in every round
ShortAlways(c) == TRUE
\* lines 197, 202
Short(c) == n_collected[c] < tot_n_case

\* a path below out_dir: <<gene, replicate or -1, <<prvl, pqtl, test>>, name>>
NoStem == <<"", "", "">>
GeneDir(g) ==
    {<<g, -1, NoStem, f>> :
        f \in {"", "lder.snp", "plink.bim", "region.kggsee", "region.hess", "region.lder",
               "region.ldak"}}
LdFiles(g) ==
    {<<g, j, NoStem, "">> : j \in 0..(n_rep - 1)} \cup
    {<<g, j, <<"plink_ld", n_ld_str[a], "">>, e>> :
        j \in 0..(n_rep - 1), a \in 1..Len(n_ld_str), e \in {"bed", "bim", "fam"}}
\* lines 219-242
SumstatFiles(g, c, test) ==
    {<<g, j, <<c[1], c[2], test>>, e>> :
        j \in 0..(n_rep - 1), e \in {"sumstat.gz", "lder.sumstat.gz", "ldak.sumstat"}}

GeneIdle ==
    /\ gene = "none" /\ m = 0 /\ ret = "none" /\ files = {} /\ n_drawn = 0
    /\ X_pop0 = <<>> /\ X_idx_used = <<>> /\ X_case_dict = <<>> /\ X_ctrl_dict = <<>>
    /\ realized_beta = <<>> /\ n_collected = <<>> /\ thresholds = <<>>
    /\ X_ld_lst = <<>> /\ bed = <<>> /\ X = <<>> /\ k = 0 /\ rounds = 0

PanelBim ==
    [s \in 1..PanelSnps |-> [CHR |-> 1, SNP |-> s, CM |-> 0, BP |-> s, A1 |-> "G", A2 |-> "A"]]
RegionVals ==
    {[CHR |-> c, START |-> s, END |-> e] : c \in ChrVals, s \in 1..2, e \in 1..PanelSnps}

\* the regions tried for the gene of SpecGene
GeneRegionVals == {r \in RegionVals : r.END = PanelSnps}

\* lines 73-80
SelectSnps ==
    /\ pc = "start"
    /\ UNCHANGED notGene
    /\ m' = Len(SnpIdx(plink_bim, region[gene]))
    /\ pc' = "selected"
    /\ UNCHANGED <<gene, ret, files, n_drawn, X_pop0, X_idx_used, X_case_dict, X_ctrl_dict,
                   realized_beta, n_collected, thresholds, X_ld_lst, bed, X, k, rounds>>

\* lines 82-84
SkipGene ==
    /\ pc = "selected"
    /\ UNCHANGED notGene
    /\ IsEmpty(m)
    /\ ret' = 0
    /\ pc' = "returned"
    /\ UNCHANGED <<gene, m, files, n_drawn, X_pop0, X_idx_used, X_case_dict, X_ctrl_dict,
                   realized_beta, n_collected, thresholds, X_ld_lst, bed, X, k, rounds>>

\* lines 86-110
WriteGeneFiles ==
    /\ pc = "selected"
    /\ UNCHANGED notGene
    /\ ~IsEmpty(m)
    /\ files' = files \cup GeneDir(gene)
    /\ pc' = "pop0"
    /\ UNCHANGED <<gene, m, ret, n_drawn, X_pop0, X_idx_used, X_case_dict, X_ctrl_dict,
                   realized_beta, n_collected, thresholds, X_ld_lst, bed, X, k, rounds>>

\* lines 112-138
SamplePop0 ==
    /\ pc = "pop0"
    /\ UNCHANGED notGene
    /\ X_pop0' = SampleRows(n_drawn, n_pop_beta \div subsample_size)
    /\ n_drawn' = n_drawn + Len(X_pop0')
    /\ thresholds' = [i \in 1..Len(prevalence_lst) |-> Isf(prevalence_lst[i])]
    /\ X_idx_used' = <<>>
    /\ X_case_dict' = [c \in {} |-> <<>>]
    /\ X_ctrl_dict' = [c \in {} |-> <<>>]
    /\ realized_beta' = [c \in {} |-> {}]
    /\ n_collected' = [c \in ComboSet |-> "nan"]
    /\ k' = 1
    /\ pc' = "realize"
    /\ UNCHANGED <<gene, m, ret, files, X_ld_lst, bed, X, rounds>>

\* d[key] = val
Put(d, key, val) == [x \in DOMAIN d \cup {key} |-> IF x = key THEN val ELSE d[x]]

\* lines 139-161, one iteration of the loop over the combinations
\* (n_pop_beta is a multiple of subsample_size, as line 39 requires)
Realize ==
    /\ pc = "realize"
    /\ UNCHANGED notGene
    /\ LET c == Combos[k]
           th == thresholds[PrvlIdx(c)]
       IN \E idx_qtl \in {q \in SUBSET (1..m) : Cardinality(q) = MQtl(m, c[2])} :
          \E y_norm \in [1..n_pop_beta -> Liabilities(th)] :
            LET y == Affected(y_norm, th)
                i_case == CaseIdx(y)
                i_ctrl == CtrlIdx(y, Len(i_case))
            IN /\ realized_beta' = Put(realized_beta, c, idx_qtl)
               /\ n_collected' = [n_collected EXCEPT ![c] = Len(i_case)]
               /\ X_case_dict' = Put(X_case_dict, c, <<Rows(X_pop0, i_case)>>)
               /\ X_ctrl_dict' = Put(X_ctrl_dict, c, <<Rows(X_pop0, i_ctrl)>>)
               /\ X_idx_used' = X_idx_used \o <<i_case, i_ctrl>>
    /\ k' = IF k = Len(Combos) THEN 0 ELSE k + 1
    /\ pc' = IF k = Len(Combos) THEN "ld" ELSE "realize"
    /\ UNCHANGED <<gene, m, ret, files, n_drawn, X_pop0, thresholds, X_ld_lst, bed, X, rounds>>

\* the LD pool of line 167
LdPool == Take(Delete(X_pop0, Range(Concat(X_idx_used))), n_ld_total)
\* line 178 reshapes every slice; it raises unless the slice has n_rep * n_ld rows
LdSlice(pool, a) == Slice(pool, LdStart(a), LdStart(a) + n_rep * n_ld_int[a])
LdFits(pool) == \A a \in 1..Len(n_ld_int) : Len(LdSlice(pool, a)) = n_rep * n_ld_int[a]

\* lines 164-182
SplitLd ==
    /\ pc = "ld"
    /\ UNCHANGED notGene
    /\ LdFits(LdPool)
    /\ X_idx_used' = Range(Concat(X_idx_used))
    /\ X_ld_lst' = [a \in 1..Len(n_ld_int) |-> Reshape(LdSlice(LdPool, a), n_rep, n_ld_int[a])]
    /\ X_pop0' = <<>>
    /\ pc' = "write_ld"
    /\ UNCHANGED <<gene, m, ret, files, n_drawn, X_case_dict, X_ctrl_dict, realized_beta,
                   n_collected, thresholds, bed, X, k, rounds>>

SplitLdRaise ==
    /\ pc = "ld"
    /\ UNCHANGED notGene
    /\ ~LdFits(LdPool)
    /\ X_idx_used' = Range(Concat(X_idx_used))
    /\ X_pop0' = LdPool
    /\ pc' = "raise@178"
    /\ UNCHANGED <<gene, m, ret, files, n_drawn, X_case_dict, X_ctrl_dict, realized_beta,
                   n_collected, thresholds, X_ld_lst, bed, X, k, rounds>>

\* lines 184-193
WriteLd ==
    /\ pc = "write_ld"
    /\ UNCHANGED notGene
    /\ files' = files \cup LdFiles(gene)
    /\ bed' = [p \in (0..(n_rep - 1)) \X (1..Len(n_ld_int)) |-> X_ld_lst[p[2]][p[1] + 1]]
    /\ X_ld_lst' = <<>>
    /\ pc' = "loop"
    /\ UNCHANGED <<gene, m, ret, n_drawn, X_pop0, X_idx_used, X_case_dict, X_ctrl_dict,
                   realized_beta, n_collected, thresholds, X, k, rounds>>

\* lines 197-199: the loop test holds and a new batch is drawn
StartRound ==
    /\ pc = "loop"
    /\ UNCHANGED notGene
    /\ \E c \in ComboSet : n_collected[c] < tot_n_case
    /\ rounds < MaxRounds
    /\ X' = SampleRows(n_drawn, num_subsamples_per_round)
    /\ n_drawn' = n_drawn + Len(X')
    /\ rounds' = rounds + 1
    /\ k' = 1
    /\ pc' = "round"
    /\ UNCHANGED <<gene, m, ret, files, X_pop0, X_idx_used, X_case_dict, X_ctrl_dict,
                   realized_beta, n_collected, thresholds, X_ld_lst, bed>>

NextCombo ==
    /\ k' = IF k = Len(Combos) THEN 0 ELSE k + 1
    /\ pc' = IF k = Len(Combos) THEN "loop" ELSE "round"

\* lines 201-210, an iteration for a combination that is short of its target
RoundCollect ==
    /\ pc = "round"
    /\ UNCHANGED notGene
    /\ Short(Combos[k])
    /\ LET c == Combos[k]
           th == thresholds[PrvlIdx(c)]
       IN \E y_norm \in [1..Len(X) -> Liabilities(th)] :
            LET y == Affected(y_norm, th)
                i_case == CaseIdx(y)
                i_ctrl == CtrlIdx(y, Len(i_case))
            IN /\ n_collected' = [n_collected EXCEPT ![c] = @ + Len(i_case)]
               /\ X_case_dict' = [X_case_dict EXCEPT ![c] = Append(@, Rows(X, i_case))]
               /\ X_ctrl_dict' = [X_ctrl_dict EXCEPT ![c] = Append(@, Rows(X, i_ctrl))]
    /\ NextCombo
    /\ UNCHANGED <<gene, m, ret, files, n_drawn, X_pop0, X_idx_used, realized_beta,
                   thresholds, X_ld_lst, bed, X, rounds>>

\* lines 201-202, an iteration for a combination that has reached its target
RoundSkip ==
    /\ pc = "round"
    /\ UNCHANGED notGene
    /\ ~Short(Combos[k])
    /\ NextCombo
    /\ UNCHANGED <<gene, m, ret, files, n_drawn, X_pop0, X_idx_used, X_case_dict, X_ctrl_dict,
                   realized_beta, n_collected, thresholds, X_ld_lst, bed, X, rounds>>

LoopExit == \A c \in ComboSet : ~(n_collected[c] < tot_n_case)
\* lines 215-216 reshape the first tot_n_case rows; numpy raises when there are fewer
Enough(d) == \A c \in ComboSet : Len(Concat(d[c])) >= tot_n_case
Split(d) == [c \in ComboSet |-> Reshape(Take(Concat(d[c]), tot_n_case), n_rep, n_case)]

\* lines 197, 212-217
Partition ==
    /\ pc = "loop"
    /\ UNCHANGED notGene
    /\ LoopExit
    /\ Enough(X_case_dict) /\ Enough(X_ctrl_dict)
    /\ X_case_dict' = Split(X_case_dict)
    /\ X_ctrl_dict' = Split(X_ctrl_dict)
    /\ pc' = "test"
    /\ UNCHANGED <<gene, m, ret, files, n_drawn, X_pop0, X_idx_used, realized_beta,
                   n_collected, thresholds, X_ld_lst, bed, X, k, rounds>>

PartitionRaise ==
    /\ pc = "loop"
    /\ UNCHANGED notGene
    /\ LoopExit
    /\ ~(Enough(X_case_dict) /\ Enough(X_ctrl_dict))
    /\ pc' = "raise@215"
    /\ UNCHANGED geneVars

\* lines 244-279 when no test raises
AssociationTests ==
    /\ pc = "test"
    /\ UNCHANGED notGene
    /\ files' = files \cup UNION {SumstatFiles(gene, c, t) :
                                    c \in ComboSet, t \in {"linear", "chi2", "logit"}}
    /\ ret' = m
    /\ pc' = "returned"
    /\ UNCHANGED <<gene, m, n_drawn, X_pop0, X_idx_used, X_case_dict, X_ctrl_dict,
                   realized_beta, n_collected, thresholds, X_ld_lst, bed, X, k, rounds>>

\* lines 244-263 when chi2_contingency raises on the first table (a zero column)
AssociationTestsRaise ==
    /\ pc = "test"
    /\ UNCHANGED notGene
    /\ files' = files \cup SumstatFiles(gene, Combos[1], "linear")
    /\ pc' = "raise@263"
    /\ UNCHANGED <<gene, m, ret, n_drawn, X_pop0, X_idx_used, X_case_dict, X_ctrl_dict,
                   realized_beta, n_collected, thresholds, X_ld_lst, bed, X, k, rounds>>

LoaderIdle == vcf = <<>> /\ maf_min = <<0, 1>> /\ ref_haplo = <<>> /\ allele_frq = <<>>
TestIdle == Xc = <<>> /\ Xt = <<>> /\ tab = <<>> /\ z = <<>> /\ ti = 0 /\ tj = 0
PoolIdle ==
    /\ task = <<>> /\ worker = <<>> /\ result = <<>> /\ order = <<>>
    /\ snp_counts = "none" /\ table = "none" /\ n_writes = 0

InitGene ==
    /\ pc = "start"
    /\ LoaderIdle /\ TestIdle /\ PoolIdle
    /\ plink_bim = PanelBim
    /\ \E r \in GeneRegionVals : region = [g \in Range(gene_list) |-> r]
    /\ gene = gene_list[1] /\ m = 0 /\ ret = "none" /\ files = {} /\ n_drawn = 0
    /\ X_pop0 = <<>> /\ X_idx_used = <<>> /\ X_case_dict = <<>> /\ X_ctrl_dict = <<>>
    /\ realized_beta = <<>> /\ n_collected = <<>> /\ thresholds = <<>>
    /\ X_ld_lst = <<>> /\ bed = <<>> /\ X = <<>> /\ k = 0 /\ rounds = 0

NextGene ==
    \/ SelectSnps \/ SkipGene \/ WriteGeneFiles \/ SamplePop0 \/ Realize
    \/ SplitLd \/ SplitLdRaise \/ WriteLd \/ StartRound \/ RoundCollect \/ RoundSkip
    \/ Partition \/ PartitionRaise \/ AssociationTests \/ AssociationTestsRaise

SpecGene == InitGene /\ [][NextGene]_vars

InitLoader ==
    /\ pc = "read"
    /\ \E rows \in [1..NVcfSnps -> VcfRows] :
        vcf = [i \in 1..NVcfSnps |-> [rows[i] EXCEPT !.BP = i, !.SNP = i]]
    /\ maf_min \in MafMinVals
    /\ ref_haplo = <<>> /\ allele_frq = <<>> /\ plink_bim = <<>>
    /\ region = <<>>
    /\ GeneIdle /\ TestIdle /\ PoolIdle

NextLoader == ReadVcf \/ FilterMaf
SpecLoader == InitLoader /\ [][NextLoader]_vars

(***************************************************************************)
(* Chi-squared / odds-ratio test, lines 252-269, for one combination       *)
(***************************************************************************)
MaxTestSnps == 2
\* lines 119-121: the sum of two 0/1 haplotype calls
Dosages == {h1 + h2 : h1 \in {0, 1}, h2 \in {0, 1}}

RECURSIVE GCD(_, _)
GCD(x, y) == IF y = 0 THEN x ELSE GCD(y, x % y)
Norm(f) == IF f[1] = 0 THEN <<0, 1>> ELSE <<f[1] \div GCD(f[1], f[2]), f[2] \div GCD(f[1], f[2])>>
Abs(x) == IF x < 0 THEN -x ELSE x

\* a float64 that is a non-negative fraction, +inf or nan
Fin(n, d) == [kind |-> "fin", num |-> n, den |-> d]
Inf == [kind |-> "inf", num |-> 0, den |-> 1]
NaN == [kind |-> "nan", num |-> 0, den |-> 1]
\* numpy's true division of two non-negative integers (no exception on a zero divisor)
IntDiv(p, q) == IF q # 0 THEN Fin(p, q) ELSE IF p = 0 THEN NaN ELSE Inf
\* float64 division of two such values
FloatDiv(x, y) ==
    IF x.kind = "nan" \/ y.kind = "nan" THEN NaN
    ELSE IF x.kind = "inf" THEN (IF y.kind = "inf" THEN NaN ELSE Inf)
    ELSE IF y.kind = "inf" THEN Fin(0, 1)
    ELSE IF y.num = 0 THEN (IF x.num = 0 THEN NaN ELSE Inf)
    ELSE Fin(x.num * y.den, x.den * y.num)
\* faulty variant: o_r >= 1
GreaterOrEqualOne(x) == x.kind = "inf" \/ (x.kind = "fin" /\ x.num >= x.den)
\* line 265: o_r > 1
GreaterOne(x) == x.kind = "inf" \/ (x.kind = "fin" /\ x.num > x.den)

\* lines 255-258, per replicate i and SNP j
CountA(x, i, j) == SumSeq([r \in 1..Len(x[i]) |-> x[i][r][j]])
CountB(x, i, j) == n_gwa * 2 - CountA(x, i, j)

\* scipy.stats.chi2_contingency on [[a, b], [c, d]] (correction=True, one degree
\* of freedom): expected frequencies row * column / total, every observed cell
\* moved towards its expectation by min(0.5, |difference|), then Pearson's sum.
RowSum(t, i) == t[i][1] + t[i][2]
ColSum(t, j) == t[1][j] + t[2][j]
Total(t) == RowSum(t, 1) + RowSum(t, 2)
\* it raises ValueError when an expected frequency is zero
Chi2Raises(t) == \E i, j \in 1..2 : RowSum(t, i) * ColSum(t, j) = 0
\* 2 * N * |observed - expected| after the correction
Corrected(t, i, j) ==
    LET dev == 2 * Abs(t[i][j] * Total(t) - RowSum(t, i) * ColSum(t, j))
    IN IF dev > Total(t) THEN dev - Total(t) ELSE 0
\* the statistic as a fraction in lowest terms
Chi2(t) ==
    LET cell(i, j) ==
            Corrected(t, i, j) * Corrected(t, i, j) * RowSum(t, 3 - i) * ColSum(t, 3 - j)
    IN Norm(<<cell(1, 1) + cell(1, 2) + cell(2, 1) + cell(2, 2),
              4 * Total(t) * RowSum(t, 1) * RowSum(t, 2) * ColSum(t, 1) * ColSum(t, 2)>>)

\* lines 262-268: the signed statistic [neg, sq] stands for (-1)^neg * sqrt(sq)
Statistic(t) ==
    LET o_r == FloatDiv(IntDiv(t[1][1], t[2][1]), IntDiv(t[1][2], t[2][2]))
    IN [neg |-> ~GreaterOne(o_r), sq |-> Chi2(t)]

Table(i, j) == <<<<tab.a[i][j], tab.b[i][j]>>, <<tab.c[i][j], tab.d[i][j]>>>>
TestM == Len(Xc[1][1])

InitTest ==
    /\ pc = "sum"
    /\ LoaderIdle /\ GeneIdle /\ PoolIdle
    /\ plink_bim = <<>> /\ region = <<>>
    /\ \E mm \in 1..MaxTestSnps :
        /\ Xc \in [1..n_rep -> [1..n_case -> [1..mm -> Dosages]]]
        /\ Xt \in [1..n_rep -> [1..n_case -> [1..mm -> Dosages]]]
    /\ tab = <<>> /\ z = <<>> /\ ti = 0 /\ tj = 0

\* lines 255-259
SumTables ==
    /\ pc = "sum"
    /\ UNCHANGED notTest
    /\ tab' = [a |-> [i \in 1..n_rep |-> [j \in 1..TestM |-> CountA(Xc, i, j)]],
               b |-> [i \in 1..n_rep |-> [j \in 1..TestM |-> CountB(Xc, i, j)]],
               c |-> [i \in 1..n_rep |-> [j \in 1..TestM |-> CountA(Xt, i, j)]],
               d |-> [i \in 1..n_rep |-> [j \in 1..TestM |-> CountB(Xt, i, j)]]]
    /\ z' = [x \in {} |-> 0]
    /\ ti' = 1 /\ tj' = 1
    /\ pc' = "chi2"
    /\ UNCHANGED <<Xc, Xt>>

\* lines 260-268, one iteration
Chi2Cell ==
    /\ pc = "chi2"
    /\ UNCHANGED notTest
    /\ ~Chi2Raises(Table(ti, tj))
    /\ z' = Put(z, <<ti, tj>>, Statistic(Table(ti, tj)))
    /\ tj' = IF tj = TestM THEN 1 ELSE tj + 1
    /\ ti' = IF tj = TestM THEN ti + 1 ELSE ti
    /\ pc' = IF tj = TestM /\ ti = n_rep THEN "chi2_done" ELSE "chi2"
    /\ UNCHANGED <<Xc, Xt, tab>>

\* line 263 raising
Chi2CellRaise ==
    /\ pc = "chi2"
    /\ UNCHANGED notTest
    /\ Chi2Raises(Table(ti, tj))
    /\ pc' = "raise@263"
    /\ UNCHANGED testVars

NextTest == SumTables \/ Chi2Cell \/ Chi2CellRaise
SpecTest == InitTest /\ [][NextTest]_vars

(***************************************************************************)
(* Pool(nt).map over the gene list and snp_counts.tsv, lines 302-305       *)
(***************************************************************************)
nt == 2
Genes == 1..Len(gene_list)

\* what hapsim_one_gene returns when it does not raise, lines 73-84 and 279
HapsimReturn(g) ==
    LET mm == Len(SnpIdx(plink_bim, region[g])) IN IF IsEmpty(mm) THEN 0 ELSE mm

\* faulty variant: results in the order the workers finished (imap_unordered)
InCompletionOrder(res, ord) == [i \in 1..Len(ord) |-> res[ord[i]]]
\* Pool.map returns the results in the order of the iterable
InTaskOrder(res, ord) == [i \in 1..Len(res) |-> res[i]]

InitPool ==
    /\ pc = "map"
    /\ LoaderIdle /\ GeneIdle /\ TestIdle
    /\ plink_bim = PanelBim
    /\ region \in [Range(gene_list) -> RegionVals]
    /\ task = [i \in Genes |-> "queued"]
    /\ worker = [w \in 1..nt |-> 0]
    /\ result = [i \in Genes |-> 0]
    /\ order = <<>>
    /\ snp_counts = <<>> /\ table = <<>> /\ n_writes = 0

\* an idle worker takes the next queued gene
WorkerTake(w) ==
    /\ pc = "map"
    /\ UNCHANGED notPool
    /\ worker[w] = 0
    /\ \E i \in Genes :
        /\ task[i] = "queued"
        /\ \A h \in Genes : h < i => task[h] # "queued"
        /\ task' = [task EXCEPT ![i] = "running"]
        /\ worker' = [worker EXCEPT ![w] = i]
    /\ UNCHANGED <<pc, plink_bim, region, result, order, snp_counts, table, n_writes>>

\* hapsim_one_gene returns in worker w
WorkerReturn(w) ==
    /\ pc = "map"
    /\ UNCHANGED notPool
    /\ worker[w] # 0
    /\ result' = [result EXCEPT ![worker[w]] = HapsimReturn(gene_list[worker[w]])]
    /\ task' = [task EXCEPT ![worker[w]] = "returned"]
    /\ order' = Append(order, worker[w])
    /\ worker' = [worker EXCEPT ![w] = 0]
    /\ UNCHANGED <<pc, plink_bim, region, snp_counts, table, n_writes>>

\* hapsim_one_gene raises in worker w (only past the early return of line 84)
WorkerRaise(w) ==
    /\ pc = "map"
    /\ UNCHANGED notPool
    /\ worker[w] # 0
    /\ HapsimReturn(gene_list[worker[w]]) # 0
    /\ task' = [task EXCEPT ![worker[w]] = "raised"]
    /\ order' = Append(order, worker[w])
    /\ worker' = [worker EXCEPT ![w] = 0]
    /\ UNCHANGED <<pc, plink_bim, region, result, snp_counts, table, n_writes>>

\* line 304: map returns once every task has returned
MapReturn ==
    /\ pc = "map"
    /\ UNCHANGED notPool
    /\ \A i \in Genes : task[i] = "returned"
    /\ snp_counts' = InTaskOrder(result, order)
    /\ pc' = "write"
    /\ UNCHANGED <<plink_bim, region, task, worker, result, order, table, n_writes>>

\* line 304: map re-raises a worker's exception once every task has finished
MapRaise ==
    /\ pc = "map"
    /\ UNCHANGED notPool
    /\ \A i \in Genes : task[i] \in {"returned", "raised"}
    /\ \E i \in Genes : task[i] = "raised"
    /\ pc' = "raise@304"
    /\ UNCHANGED <<plink_bim, region, poolVars>>

\* line 305
WriteTable ==
    /\ pc = "write"
    /\ UNCHANGED notPool
    /\ table' = [i \in 1..Len(gene_list) |-> <<gene_list[i], snp_counts[i]>>]
    /\ n_writes' = n_writes + 1
    /\ pc' = "end"
    /\ UNCHANGED <<plink_bim, region, task, worker, result, order, snp_counts>>

NextPool ==
    \/ \E w \in 1..nt : WorkerTake(w) \/ WorkerReturn(w) \/ WorkerRaise(w)
    \/ MapReturn \/ MapRaise \/ WriteTable
SpecPool == InitPool /\ [][NextPool]_vars

(***************************************************************************)
(* Properties of hapsim_one_gene (SpecGene)                                *)
(***************************************************************************)
Min(a, b) == IF a < b THEN a ELSE b
NoDup(s) == Cardinality(Range(s)) = Len(s)
PairwiseDisjoint(fam) ==
    \A i, j \in 1..Len(fam) : i # j => Range(fam[i]) \cap Range(fam[j]) = {}
Collecting == pc \in {"realize", "ld", "write_ld", "loop", "round", "raise@178", "raise@215"}
Partitioned == pc \in {"test", "raise@263"} \/ (pc = "returned" /\ m > 0)
LdWritten == pc \in {"loop", "round", "raise@215"} \/ Partitioned
\* the rows of the initial pool, and of the batch of round r
BatchSize(i) == IF i = 1 THEN n_pop_beta ELSE num_subsamples_per_round * subsample_size

\* C1: when the oversampling loop has ended, every combination holds at least
\* n_rep * n_case collected case rows and the same number of control rows.
C1_LoopEndsBalanced ==
    (pc = "loop" /\ LoopExit) =>
        \A c \in ComboSet :
            /\ n_collected[c] >= tot_n_case
            /\ Len(Concat(X_case_dict[c])) >= tot_n_case
            /\ Len(Concat(X_ctrl_dict[c])) = Len(Concat(X_case_dict[c]))

\* the panels of replicate j (0-based), one per LD size
PanelsOf(j) == [a \in 1..Len(n_ld_int) |-> bed[<<j, a>>]]
AllPanels == Concat([j \in 1..n_rep |-> PanelsOf(j - 1)])

\* C2: within one combination, after the split into replicates, the case slices,
\* the control slices and the LD panels of all replicates and LD sizes are
\* pairwise disjoint sets of pool rows, and no slice holds a row twice.
C2_SlicesDisjoint ==
    Partitioned =>
        \A c \in ComboSet :
            LET fam == X_case_dict[c] \o X_ctrl_dict[c] \o AllPanels
            IN /\ PairwiseDisjoint(fam)
               /\ \A i \in 1..Len(fam) : NoDup(fam[i])
               /\ Len(X_case_dict[c]) = n_rep /\ Len(X_ctrl_dict[c]) = n_rep

\* a gene was split whose first replicate holds an initial-pool case
C2_Witness ==
    /\ pc = "test"
    /\ \E c \in ComboSet : X_case_dict[c][1][1] <= n_pop_beta
    /\ Len(AllPanels) = n_rep * Len(n_ld_int)

\* C6: a gene without SNPs returns 0 at once: no directory or file, no sample,
\* no effect sizes, no association test.
C6_EmptyGeneDoesNothing ==
    (pc # "start" /\ m = 0) =>
        /\ pc \in {"selected", "returned"}
        /\ pc = "returned" => ret = 0
        /\ files = {}
        /\ n_drawn = 0
        /\ DOMAIN realized_beta = {} /\ DOMAIN X_case_dict = {} /\ DOMAIN X_ctrl_dict = {}
        /\ DOMAIN n_collected = {} /\ DOMAIN thresholds = {}

C6_Witness == pc = "returned" /\ m = 0 /\ ret = 0 /\ files = {}

\* the LD panels, before and after they are written
LdAssigned == pc = "write_ld" \/ LdWritten
LdPanel(j, a) == IF pc = "write_ld" THEN X_ld_lst[a][j + 1] ELSE bed[<<j, a>>]
LdKeys == (0..(n_rep - 1)) \X (1..Len(n_ld_int))
\* position of a panel in the order LD size first, replicate second
LdRank(p) == (p[2] - 1) * n_rep + p[1]

\* C8: LD panels hold only initial-pool rows that no combination selected; for
\* every LD size each replicate gets exactly n_ld rows; no row is in two panels;
\* the pool is handed out in the order of the LD sizes, replicate by replicate.
C8_LdPanels ==
    LdAssigned =>
        /\ \A p \in LdKeys :
            /\ Len(LdPanel(p[1], p[2])) = n_ld_int[p[2]]
            /\ NoDup(LdPanel(p[1], p[2]))
            /\ Range(LdPanel(p[1], p[2])) \subseteq 1..n_pop_beta
            /\ \A c \in ComboSet :
                Range(LdPanel(p[1], p[2])) \cap
                    (Range(Concat(X_case_dict[c])) \cup Range(Concat(X_ctrl_dict[c]))) = {}
        /\ \A p, q \in LdKeys :
            LdRank(p) < LdRank(q) =>
                \A x \in Range(LdPanel(p[1], p[2])), y \in Range(LdPanel(q[1], q[2])) : x < y

\* panels were handed out although some combination took rows of the initial pool
C8_Witness ==
    /\ pc = "write_ld"
    /\ \E c \in ComboSet : Len(X_case_dict[c][1]) > 0
    /\ \E p \in LdKeys : \E x \in Range(LdPanel(p[1], p[2])) : x > n_ld_total

C10_RoundFrame ==
    [][(pc \in {"loop", "round"} /\ pc' \in {"loop", "round"}) =>
        /\ realized_beta' = realized_beta
        /\ thresholds' = thresholds
        /\ \A c \in ComboSet :
            /\ n_collected'[c] >= n_collected[c]
            /\ n_collected[c] >= tot_n_case =>
                /\ n_collected'[c] = n_collected[c]
                /\ X_case_dict'[c] = X_case_dict[c]
                /\ X_ctrl_dict'[c] = X_ctrl_dict[c]]_vars

\* a second round has passed over a combination that the first one completed
C10_Witness ==
    /\ pc = "loop" /\ rounds = 2
    /\ \E c, d \in ComboSet :
        /\ Len(X_case_dict[c]) = 2 /\ n_collected[c] >= tot_n_case
        /\ Len(X_case_dict[d]) = 3

(***************************************************************************)
(* Properties of the haplotype loader (SpecLoader)                         *)
(***************************************************************************)
\* number of 1 alleles in the genotype strings of VCF row r
AltCount(r) ==
    SumSeq([i \in 1..Len(Samples) |-> vcf[r].gt[i][1] + vcf[r].gt[i][2]])
NHaplo == 2 * Len(Samples)
\* maf_min < AltCount(r) / NHaplo < 1 - maf_min
StrictBand(r) ==
    /\ maf_min[1] * NHaplo < AltCount(r) * maf_min[2]
    /\ AltCount(r) * maf_min[2] < (maf_min[2] - maf_min[1]) * NHaplo

FloatGreater(x, y) ==
    /\ x.kind # "nan" /\ y.kind # "nan"
    /\ \/ x.kind = "inf" /\ y.kind = "fin"
       \/ x.kind = "fin" /\ y.kind = "fin" /\ x.num * y.den > y.num * x.den

\* C4: the reported statistic has the magnitude sqrt(chi2) of its table, chi2
\* being the continuity-corrected statistic N (|ad - bc| - N/2)^2 / (r1 r2 c1 c2)
\* (0 when |ad - bc| <= N/2), with the plus sign iff (a/c) > (b/d) and the minus
\* sign otherwise, an odds ratio of exactly 1 included.
C4_SignedChi ==
    pc \in {"chi2", "chi2_done", "raise@263"} =>
        \A p \in DOMAIN z :
            LET a == tab.a[p[1]][p[2]]
                b == tab.b[p[1]][p[2]]
                c == tab.c[p[1]][p[2]]
                d == tab.d[p[1]][p[2]]
                n == a + b + c + d
                dev == 2 * Abs(a * d - b * c)
                cor == IF dev > n THEN dev - n ELSE 0
            IN /\ z[p].sq[1] * (4 * (a + b) * (c + d) * (a + c) * (b + d)) =
                      n * cor * cor * z[p].sq[2]
               /\ z[p].sq[2] > 0 /\ z[p].sq[1] >= 0
               /\ z[p].neg = ~FloatGreater(IntDiv(a, c), IntDiv(b, d))
               /\ (a * d = b * c /\ c > 0) => z[p].neg

\* all tables were tested: one gave a positive non-zero statistic, one had an
\* odds ratio of exactly 1
C4_Witness ==
    /\ pc = "chi2_done"
    /\ \E p, q \in DOMAIN z :
        /\ ~z[p].neg /\ z[p].sq[1] > 0
        /\ z[q].neg /\ tab.a[q[1]][q[2]] * tab.d[q[1]][q[2]] = tab.b[q[1]][q[2]] * tab.c[q[1]][q[2]]

\* C7: the table of a replicate and SNP counts the alleles of its sample: a and
\* c are the dosage sums of the n_case cases and controls, b and d the A2
\* counts, so that a + b = c + d = 2 * n_case.
C7_AlleleCounts ==
    pc \in {"chi2", "chi2_done", "raise@263"} =>
        \A i \in 1..n_rep : \A j \in 1..TestM :
            /\ tab.a[i][j] = SumSeq([r \in 1..n_case |-> Xc[i][r][j]])
            /\ tab.c[i][j] = SumSeq([r \in 1..n_case |-> Xt[i][r][j]])
            /\ tab.a[i][j] + tab.b[i][j] = 2 * n_case
            /\ tab.c[i][j] + tab.d[i][j] = 2 * n_case

====
